---- MODULE Spec2Model ----
(***************************************************************************)
(* The LangGraph workflow of app/tools/graph.py: nine step handlers, two   *)
(* routers, and the StateGraph(State) executor that runs them.             *)
(*                                                                         *)
(* A Python dict is a function from its present keys; Python None is the   *)
(* record NoneVal (or the string "None" for string-typed hint fields).     *)
(* `state` holds the channel values of the compiled graph: the executor    *)
(* builds each handler's input dict from the channels and writes back only *)
(* the keys that the State schema declares (Commit).                       *)
(***************************************************************************)
EXTENDS Integers, Sequences, FiniteSets, TLC

VARIABLES state, pc, returned, execLog, zeroRuns, genCalls, clock, escalation,
          threads, globals, builds, added

vars == <<state, pc, returned, execLog, zeroRuns, genCalls, clock, escalation,
          threads, globals, builds, added>>

(***************************************************************************)
(* Bounds of the model.                                                    *)
(***************************************************************************)
MaxRows == 1
MaxContexts == 2

(***************************************************************************)
(* Python dict helpers.                                                    *)
(***************************************************************************)
NoneVal == [None |-> TRUE]
EmptyDict == [k \in {} |-> 0]

Has(d, k) == k \in DOMAIN d
Get(d, k, dflt) == IF k \in DOMAIN d THEN d[k] ELSE dflt
Put(d, k, v) == [x \in (DOMAIN d) \cup {k} |-> IF x = k THEN v ELSE d[x]]
IsDict(v) == ~ ("None" \in DOMAIN v)

\* state.setdefault("trace", []).append(name)
AppendTrace(s, name) == Put(s, "trace", Append(Get(s, "trace", <<>>), name))

(***************************************************************************)
(* class State(TypedDict): the declared keys, and the executor's write-    *)
(* back of a handler's returned dict (undeclared keys have no channel).    *)
(***************************************************************************)
SchemaKeys ==
  {"question", "need_stats", "have_rows", "retries", "max_retries", "hints",
   "time_window", "context", "sparql", "rows", "analysis", "analysis_error",
   "answer", "trace", "topology_all_rooms"}

CommitKeepAll(s) == s
Commit(s) == [k \in (DOMAIN s) \cap SchemaKeys |-> s[k]]

(***************************************************************************)
(* Inputs: questions, hint records, collaborator results.                  *)
(***************************************************************************)
Questions == {"q1"}

\* need after _normalize_need: None, or a (possibly empty) list of metrics
NeedNone == [isList |-> FALSE, items |-> <<>>]
NeedList(xs) == [isList |-> TRUE, items |-> xs]
Needs == {NeedNone, NeedList(<<>>), NeedList(<<"avg", "max">>)}

\* JSON scalars carried by a time_range dict
JInt(n) == [int |-> n]
JStr(s) == [str |-> s]
JNull == [null |-> TRUE]

\* Python int(x) on a JSON scalar: an integer is itself, a string of digits
\* is parsed, any other string raises ValueError and null raises TypeError
IntTable == [s \in {"2"} |-> 2]
py_int_ok(x) == Has(x, "int") \/ (Has(x, "str") /\ x.str \in DOMAIN IntTable)
py_int(x) == IF Has(x, "int") THEN x.int ELSE IntTable[x.str]

\* time_range after llm_parse: None, or a dict that has the key "kind"
TimeRanges ==
  { NoneVal,
    [kind |-> "relative_days", days_ago |-> JInt(1)],
    [kind |-> "relative_days", days_ago |-> JStr("soon")],
    [kind |-> "last_hours", hours |-> JInt(0)],
    [kind |-> "absolute", start |-> "2024-05-01", end |-> "2024-05-02"],
    [kind |-> "absolute", start |-> "2024-05-01", end |-> "tomorrow"],
    [kind |-> "point_in_time", at |-> "2024-05-01T09:00"],
    [kind |-> "someday"] }

\* rag_agent._neutral
_neutral(reason) ==
  [question_type |-> "other", topology_intent |-> "None", need_stats |-> FALSE,
   need |-> NeedNone, room |-> "None", metric |-> "None", time_range |-> NoneVal,
   uncertain |-> TRUE, ambiguities |-> <<>>, source |-> reason]

NeutralHints == {_neutral(r) : r \in {"no-prompt", "no-llm", "parse-error", "llm-error"}}

\* the record llm_parse builds from the understander's JSON
LLMRecord(qt, ti, nd, rm, tr) ==
  [question_type |-> qt, topology_intent |-> ti,
   need_stats |-> (nd.isList /\ Len(nd.items) > 0),
   need |-> nd, room |-> rm, metric |-> "None", time_range |-> tr,
   uncertain |-> FALSE, ambiguities |-> <<>>, source |-> "llm"]

\* "<list>" stands for a topology_intent that is a JSON list: llm_parse only
\* cleans string values, so the list is kept as it is
TopologyIntents == {"None", "count_rooms", "list_rooms", "sensor_existence", "<list>"}

LLMHints ==
     {LLMRecord(qt, "None", nd, "None", tr) :
         qt \in {"timeseries", "other"}, nd \in Needs, tr \in TimeRanges}
  \cup {LLMRecord("timeseries", "None", NeedNone, "305", NoneVal)}
  \cup {LLMRecord("topology", ti, NeedNone, "None", NoneVal) : ti \in TopologyIntents}
  \cup {LLMRecord("topology", "list_rooms", NeedList(<<"avg", "max">>), "None",
                  [kind |-> "point_in_time", at |-> "2024-05-01T09:00"])}

\* rag_agent.llm_parse: every record it can return
llm_parse == NeutralHints \cup LLMHints

\* rag_agent.build_context(chunks): "" without chunks, else a text block
ContextTexts == <<"context-1", "context-2", "context-3", "context-4">>
Contexts == {""} \cup {ContextTexts[i] : i \in 1..MaxContexts}

\* result lists of the query executor, up to MaxRows rows
RowLists == {[i \in 1..n |-> [tsid |-> "ts"]] : n \in 0..MaxRows}

(***************************************************************************)
(* normalize_time_agent: time in minutes of local time.                    *)
(***************************************************************************)
MinutesPerHour == 60
MinutesPerDay == 1440

\* _now_local: the clock reading of the request (10:30 on local day 20)
NowLocal == 20 * MinutesPerDay + 630

\* _start_of_day
_start_of_day(t) == t - (t % MinutesPerDay)

\* _parse_dt on the strings of the model: 'YYYY-MM-DD' is local midnight,
\* 'YYYY-MM-DDTHH:MM' the minute; any other string raises ValueError
ParseTable ==
  [s \in {"2024-05-01", "2024-05-02", "2024-05-01T09:00"} |->
     CASE s = "2024-05-01" -> 10 * MinutesPerDay
       [] s = "2024-05-02" -> 11 * MinutesPerDay
       [] s = "2024-05-01T09:00" -> 10 * MinutesPerDay + 9 * MinutesPerHour]
_parse_ok(s) == s \in DOMAIN ParseTable
_parse_dt(s) == ParseTable[s]

\* datetime.isoformat() of a zone-aware local time
Iso(t) == [iso |-> t, tz |-> "Asia/Shanghai"]

\* the label texts: a format and the values put into it
LabelYesterday == [fmt |-> "yesterday"]
LabelDaysAgo(d) == [fmt |-> "<d> days ago", d |-> d]
LabelLastHours(h) == [fmt |-> "last <h> hours", h |-> h]
LabelRange(a, b) == [fmt |-> "<start> ~ <end>", start |-> a, end |-> b]
LabelLiteral(a) == [fmt |-> "<at>", at |-> a]
LabelNoConstraint == [fmt |-> "(no time constraint)"]
LabelFailed == [fmt |-> "(time parse failed)"]

Window(start, end, label) ==
  [start_local |-> Iso(start), end_local |-> Iso(end), label |-> label,
   ok |-> TRUE, error |-> "None"]
NoWindowInvented ==
  [start_local |-> Iso(0), end_local |-> Iso(MinutesPerDay), label |-> LabelYesterday,
   ok |-> TRUE, error |-> "None"]
NoWindow ==
  [start_local |-> NoneVal, end_local |-> NoneVal, label |-> LabelNoConstraint,
   ok |-> TRUE, error |-> "None"]
FailedWindowSilent ==
  [start_local |-> NoneVal, end_local |-> NoneVal, label |-> LabelFailed,
   ok |-> FALSE, error |-> "None"]
FailedWindow ==
  [start_local |-> NoneVal, end_local |-> NoneVal, label |-> LabelFailed,
   ok |-> FALSE, error |-> "time parse failed"]

MaxSecond(a, b) == b
Max(a, b) == IF a >= b THEN a ELSE b

_window_relative_days_from_now(now_local, days_ago) ==
  Window(now_local - days_ago * MinutesPerDay,
         now_local - days_ago * MinutesPerDay + MinutesPerDay,
         IF days_ago = 1 THEN LabelYesterday ELSE LabelDaysAgo(days_ago))
_window_relative_days(now_local, days_ago) ==
  LET base == _start_of_day(now_local) - days_ago * MinutesPerDay
  IN  Window(base, base + MinutesPerDay,
             IF days_ago = 1 THEN LabelYesterday ELSE LabelDaysAgo(days_ago))

_window_last_hours(now_local, hours) ==
  Window(now_local - hours * MinutesPerHour, now_local, LabelLastHours(hours))

_window_absolute(start_str, end_str) ==
  Window(_parse_dt(start_str), _parse_dt(end_str), LabelRange(start_str, end_str))

_window_point_in_time_day(at_str) ==
  Window(_parse_dt(at_str), _parse_dt(at_str) + MinutesPerDay, LabelLiteral(at_str))
_window_point_in_time(at_str) ==
  Window(_parse_dt(at_str), _parse_dt(at_str) + MinutesPerHour, LabelLiteral(at_str))

\* normalize_time(hints) with now_local = _now_local(tz_name);
\* tr = hints.get("time_range") or {}; every exception of the try block
\* (int() of a non-number, _parse_dt of an unparseable string) gives FailedWindow
normalize_time(hints, now_local) ==
  LET tr0 == Get(hints, "time_range", NoneVal)
      tr == IF IsDict(tr0) THEN tr0 ELSE EmptyDict
      kind == Get(tr, "kind", "None")
  IN  CASE kind = "relative_days" ->
             LET d == Get(tr, "days_ago", JInt(1))
             IN  IF py_int_ok(d) THEN _window_relative_days(now_local, py_int(d))
                 ELSE FailedWindow
        [] kind = "last_hours" ->
             LET h == Get(tr, "hours", JInt(6))
             IN  IF py_int_ok(h) THEN _window_last_hours(now_local, Max(1, py_int(h)))
                 ELSE FailedWindow
        [] kind = "absolute" ->
             LET a == Get(tr, "start", "")
                 b == Get(tr, "end", "")
             IN  IF _parse_ok(a) /\ _parse_ok(b) THEN _window_absolute(a, b)
                 ELSE FailedWindow
        [] kind = "point_in_time" ->
             LET a == Get(tr, "at", "")
             IN  IF _parse_ok(a) THEN _window_point_in_time(a)
                 ELSE FailedWindow
        [] OTHER -> NoWindow

(***************************************************************************)
(* sparql_agent: the template generator and the LLM fallback generator.    *)
(***************************************************************************)
\* _extract_room_from_text on the questions of the model
_extract_room_from_text(q) == "None"

\* SPARQLGenerator.generate raises TypeError when query_map.get is given an
\* unhashable topology_intent
generate_raises(hints) ==
  /\ Get(hints, "question_type", "None") = "topology"
  /\ Get(hints, "topology_intent", "None") = "<list>"

\* SPARQLGenerator.generate: the template chosen for the hints
generate(question, context, hints) ==
  IF Get(hints, "question_type", "None") = "topology"
  THEN LET ti == Get(hints, "topology_intent", "None")
       IN  CASE ti = "count_rooms" -> "tpl:count_rooms"
             [] ti = "sensor_existence" -> "tpl:sensor_existence"
             [] OTHER -> "tpl:list_rooms"
  ELSE LET r0 == Get(hints, "room", "None")
           room == IF r0 # "None" THEN r0 ELSE _extract_room_from_text(question)
       IN  IF room # "None" THEN "tpl:room_points_tsid"
           ELSE "tpl:list_points_any(20)"

\* what an LLM call can do: no handle, a reply text, or an exception; "escapes"
\* is an exception that the generator itself does not catch
LLMReplies == {"", "PREFIX brick: SELECT ?room", "SELECT ?x WHERE {"}
LLMOutcomes ==
  {[kind |-> k, text |-> ""] : k \in {"unavailable", "raises"}}
    \cup {[kind |-> "reply", text |-> t] : t \in LLMReplies}
Level1Outcomes == LLMOutcomes \cup {[kind |-> "escapes", text |-> ""]}

\* _clean_sparql_response: the prefixes are prepended when they are missing
_clean_sparql_response(t) ==
  IF t = "PREFIX brick: SELECT ?room" THEN t ELSE "PREFIX brick: " \o t

\* LLMSPARQLGenerator.generate: prompt = self._build_prompt(question, hints);
\* the prompt holds the question and six entries of hints
level1_prompt_with_context(question, context, hints) ==
  [question |-> question, context |-> context,
   question_type |-> Get(hints, "question_type", "unknown"),
   topology_intent |-> Get(hints, "topology_intent", "N/A"),
   room |-> Get(hints, "room", "unspecified"),
   metric |-> Get(hints, "metric", "unspecified"),
   time_range |-> Get(hints, "time_range", EmptyDict),
   need |-> Get(hints, "need", NeedList(<<>>))]
level1_prompt(question, context, hints) ==
  [question |-> question,
   question_type |-> Get(hints, "question_type", "unknown"),
   topology_intent |-> Get(hints, "topology_intent", "N/A"),
   room |-> Get(hints, "room", "unspecified"),
   metric |-> Get(hints, "metric", "unspecified"),
   time_range |-> Get(hints, "time_range", EmptyDict),
   need |-> Get(hints, "need", NeedList(<<>>))]

\* LLMSPARQLGenerator.generate: the query made from what the LLM did with
\* the prompt
llm_based_sparql_generation(o) ==
  IF o.kind = "reply" THEN _clean_sparql_response(o.text)
  ELSE "tpl:list_points_any(50)"

\* rag_agent.advanced_text_to_sparql
advanced_text_to_sparql(o) ==
  CASE o.kind = "unavailable" -> "adv:default"
    [] o.kind = "reply" -> _clean_sparql_response(o.text)
    [] OTHER -> "SELECT ?s ?p ?o WHERE { ?s ?p ?o } LIMIT 20"

PlaceholderQuery == "SELECT ?error WHERE { BIND('failed' AS ?error) }"

(***************************************************************************)
(* sparql_exec: the syntax check works on the brackets of the query text   *)
(* and on whether it uses prefixed names without any PREFIX declaration.   *)
(***************************************************************************)
\* what _basic_syntax_check looks at in a query text: its ( { [ ] } ) in
\* order, whether a token has a ":" (not http..., not PREFIX...), whether
\* the text contains PREFIX
Text(brackets, prefixed, declared) ==
  [brackets |-> brackets, prefixed |-> prefixed, declared |-> declared]

AllRoomsQuery == "SELECT DISTINCT ?room WHERE { ?room a brick:Room . } ORDER BY ?room"

\* the query texts of the model
Shape(q) ==
  CASE q = "tpl:count_rooms" -> Text(<<"(", "(", ")", ")", "{", "}">>, TRUE, TRUE)
    [] q = "tpl:list_rooms" -> Text(<<"{", "}">>, TRUE, TRUE)
    [] q = AllRoomsQuery -> Text(<<"{", "}">>, TRUE, TRUE)
    [] q = "tpl:sensor_existence" -> Text(<<"{", "{", "}", "}">>, TRUE, TRUE)
    [] q = "tpl:room_points_tsid" ->
         Text(<<"{", "(", "(", "(", ")", ")", ")", "[", "]", "{", "}", "}">>, TRUE, TRUE)
    [] q \in {"tpl:list_points_any(20)", "tpl:list_points_any(50)"} ->
         Text(<<"{", "[", "]", "{", "}", "}">>, TRUE, TRUE)
    [] q = "adv:default" -> Text(<<"{", "[", "]", "}">>, TRUE, TRUE)
    [] q = "SELECT ?s ?p ?o WHERE { ?s ?p ?o } LIMIT 20" -> Text(<<"{", "}">>, FALSE, FALSE)
    [] q = "SELECT ?error WHERE { BIND('failed' AS ?error) }" ->
         Text(<<"{", "(", ")", "}">>, FALSE, FALSE)
    [] q = "PREFIX brick: SELECT ?x WHERE {" -> Text(<<"{">>, TRUE, TRUE)
    [] q \in {"PREFIX brick: ", "PREFIX brick: SELECT ?room"} ->
         Text(<<>>, TRUE, TRUE)

pairs == [c \in {"(", "{", "["} |-> CASE c = "(" -> ")" [] c = "{" -> "}" [] c = "[" -> "]"]

\* the loop over the characters: push an opener, pop and compare on a closer
RECURSIVE scan(_, _, _)
scan(chars, i, stack) ==
  IF i > Len(chars) THEN stack = <<>>
  ELSE IF chars[i] \in DOMAIN pairs THEN scan(chars, i + 1, Append(stack, chars[i]))
  ELSE IF stack = <<>> THEN FALSE
  ELSE IF pairs[stack[Len(stack)]] # chars[i] THEN FALSE
  ELSE scan(chars, i + 1, SubSeq(stack, 1, Len(stack) - 1))

_basic_syntax_check(q) ==
  /\ q # ""
  /\ scan(Shape(q).brackets, 1, <<>>)
  /\ ~ (Shape(q).prefixed /\ ~ Shape(q).declared)

\* what g.query gives for a query that passed the check: the placeholder
\* binds ?error once, so it has exactly one solution; any other query has
\* whatever the graph holds
QueryResults(q) ==
  IF q = "SELECT ?error WHERE { BIND('failed' AS ?error) }"
  THEN {<<[error |-> "failed"]>>}
  ELSE RowLists

\* execute(query): the rows it returns, or the exception it lets through;
\* cause tells where it stopped
Returned(rows, cause) == [kind |-> "rows", rows |-> rows, cause |-> cause]
Raised(cause) == [kind |-> "raises", rows |-> <<>>, cause |-> cause]

execute(q) ==
  IF ~ _basic_syntax_check(q) THEN {Returned(<<>>, "syntax")}
  ELSE   {Raised("load")}  \* _get_graph() is called outside the try
    \cup {Returned(<<>>, "query")}  \* g.query raised
    \cup {Raised("read")}  \* iterating qres is outside the try
    \cup {Returned(r, "ok") : r \in QueryResults(q)}

(***************************************************************************)
(* Module globals built on first use (sparql_exec._RDF, rag_agent._LLM,    *)
(* _SBERT_MODEL, _FAISS_INDEX, _FAISS_TEXTS) and the request threads that  *)
(* reach them.  An object is named by a positive number, None is 0.        *)
(***************************************************************************)
NThreads == 2
Threads == 1..NThreads

Singletons == {"_RDF", "_LLM", "_SBERT_MODEL"}
Built == Singletons \cup {"_FAISS_INDEX"}

Idle == [at |-> "idle", res |-> "None", ret |-> "idle", obj |-> 0]

\* no request thread is inside a loader; nothing is built yet
NoThreadsRunning ==
  /\ threads = [t \in Threads |-> Idle]
  /\ globals = [g \in Built \cup {"_FAISS_TEXTS", "index_files"} |-> 0]
  /\ builds = [g \in Built |-> 0]
  /\ added = {}

\* a request thread calls _get_graph / _get_llm / _load_sbert_model
\* what the collaborators did during the last escalation: whether search /
\* build_context raised, the context they gave, whether
\* advanced_text_to_sparql and llm_based_sparql_generation raised, and the
\* prompt the level_1 generator made (empty when it was not called)
NoEscalation ==
  [searchRaised |-> FALSE, ctx |-> "n/a", advancedRaised |-> FALSE, level1Raised |-> FALSE,
   prompt |-> EmptyDict]

workflow_vars == <<state, pc, returned, execLog, zeroRuns, genCalls, clock, escalation>>

call(t) ==
  /\ threads[t].at = "idle"
  /\ UNCHANGED workflow_vars
  /\ \E r \in Singletons :
       threads' = [threads EXCEPT ![t] = [at |-> "check", res |-> r, ret |-> "idle", obj |-> 0]]
  /\ UNCHANGED <<globals, builds, added>>

\* if _X is not None: return _X
check_hit(t) ==
  /\ threads[t].at = "check"
  /\ UNCHANGED workflow_vars
  /\ globals[threads[t].res] # 0
  /\ threads' = [threads EXCEPT ![t] = [Idle EXCEPT !.at = threads[t].ret]]
  /\ UNCHANGED <<globals, builds, added>>

\* _X is None: go on to build it
check_miss(t) ==
  /\ threads[t].at = "check"
  /\ UNCHANGED workflow_vars
  /\ globals[threads[t].res] = 0
  /\ threads' = [threads EXCEPT ![t].at = "build"]
  /\ UNCHANGED <<globals, builds, added>>

\* Graph() + parse / init_chat_model(...) / SentenceTransformer(...)
build(t) ==
  /\ threads[t].at = "build"
  /\ UNCHANGED workflow_vars
  /\ builds' = [builds EXCEPT ![threads[t].res] = @ + 1]
  /\ threads' = [threads EXCEPT ![t].at = "assign", ![t].obj = builds'[threads[t].res]]
  /\ UNCHANGED <<globals, added>>

\* the constructor raises (or the API key is missing): nothing is stored,
\* the caller gets None or the exception
build_raises(t) ==
  /\ threads[t].at = "build"
  /\ UNCHANGED workflow_vars
  /\ threads' = [threads EXCEPT ![t] = Idle]
  /\ UNCHANGED <<globals, builds, added>>

\* _X = <the new object>; return _X
assign(t) ==
  /\ threads[t].at = "assign"
  /\ UNCHANGED workflow_vars
  /\ globals' = [globals EXCEPT ![threads[t].res] = threads[t].obj]
  /\ threads' = [threads EXCEPT ![t] = [Idle EXCEPT !.at = threads[t].ret]]
  /\ UNCHANGED <<builds, added>>

\* a request thread calls _load_faiss_index
faiss_call(t) ==
  /\ threads[t].at = "idle"
  /\ UNCHANGED workflow_vars
  /\ threads' = [threads EXCEPT ![t] = [Idle EXCEPT !.at = "faiss_check", !.res = "_FAISS_INDEX"]]
  /\ UNCHANGED <<globals, builds, added>>

\* if _FAISS_INDEX is not None: return _FAISS_INDEX
faiss_check_hit(t) ==
  /\ threads[t].at = "faiss_check"
  /\ UNCHANGED workflow_vars
  /\ globals["_FAISS_INDEX"] # 0
  /\ threads' = [threads EXCEPT ![t] = Idle]
  /\ UNCHANGED <<globals, builds, added>>

\* _FAISS_INDEX is None: model = _load_sbert_model()
faiss_check_miss(t) ==
  /\ threads[t].at = "faiss_check"
  /\ UNCHANGED workflow_vars
  /\ globals["_FAISS_INDEX"] = 0
  /\ threads' = [threads EXCEPT ![t] =
                   [at |-> "check", res |-> "_SBERT_MODEL", ret |-> "faiss_files", obj |-> 0]]
  /\ UNCHANGED <<globals, builds, added>>

\* index.faiss and texts.json exist: _FAISS_TEXTS = json.loads(...)
faiss_load_texts(t) ==
  /\ threads[t].at = "faiss_files"
  /\ UNCHANGED workflow_vars
  /\ globals["index_files"] = 1
  /\ globals' = [globals EXCEPT !["_FAISS_TEXTS"] = 1]
  /\ threads' = [threads EXCEPT ![t].at = "faiss_read", ![t].res = "_FAISS_INDEX"]
  /\ UNCHANGED <<builds, added>>

\* _FAISS_INDEX = faiss.read_index(...): a new, filled index object
faiss_read_index(t) ==
  /\ threads[t].at = "faiss_read"
  /\ UNCHANGED workflow_vars
  /\ builds' = [builds EXCEPT !["_FAISS_INDEX"] = @ + 1]
  /\ globals' = [globals EXCEPT !["_FAISS_INDEX"] = builds'["_FAISS_INDEX"]]
  /\ added' = added \cup {builds'["_FAISS_INDEX"]}
  /\ threads' = [threads EXCEPT ![t] = Idle]

\* no files: _FAISS_TEXTS = corpus; embeddings = model.encode(corpus)
faiss_corpus(t) ==
  /\ threads[t].at = "faiss_files"
  /\ UNCHANGED workflow_vars
  /\ globals["index_files"] = 0
  /\ globals' = [globals EXCEPT !["_FAISS_TEXTS"] = 1]
  /\ threads' = [threads EXCEPT ![t].at = "faiss_new", ![t].res = "_FAISS_INDEX"]
  /\ UNCHANGED <<builds, added>>

\* _FAISS_INDEX = faiss.IndexFlatIP(dim): a new, still empty index object
faiss_new_index(t) ==
  /\ threads[t].at = "faiss_new"
  /\ UNCHANGED workflow_vars
  /\ builds' = [builds EXCEPT !["_FAISS_INDEX"] = @ + 1]
  /\ globals' = [globals EXCEPT !["_FAISS_INDEX"] = builds'["_FAISS_INDEX"]]
  /\ threads' = [threads EXCEPT ![t].at = "faiss_add", ![t].obj = builds'["_FAISS_INDEX"]]
  /\ UNCHANGED added

\* _FAISS_INDEX.add(embeddings): the global is read again
faiss_add(t) ==
  /\ threads[t].at = "faiss_add"
  /\ UNCHANGED workflow_vars
  /\ added' = added \cup {globals["_FAISS_INDEX"]}
  /\ threads' = [threads EXCEPT ![t].at = "faiss_write"]
  /\ UNCHANGED <<globals, builds>>

\* faiss.write_index(...); text_path.write_text(...); return _FAISS_INDEX
faiss_write(t) ==
  /\ threads[t].at = "faiss_write"
  /\ UNCHANGED workflow_vars
  /\ globals' = [globals EXCEPT !["index_files"] = 1]
  /\ threads' = [threads EXCEPT ![t] = Idle]
  /\ UNCHANGED <<builds, added>>


\* a fresh process: no global is set; the index files of an earlier run may
\* or may not be on disk
SingletonInit ==
  /\ state \in {[question |-> q] : q \in Questions}
  /\ pc = "intent"
  /\ returned = state
  /\ execLog = <<>>
  /\ zeroRuns = 0
  /\ genCalls = 0
  /\ clock = NowLocal
  /\ escalation = NoEscalation
  /\ threads = [t \in Threads |-> Idle]
  /\ globals \in {[g \in Built \cup {"_FAISS_TEXTS", "index_files"} |->
                     IF g = "index_files" THEN f ELSE 0] : f \in {0, 1}}
  /\ builds = [g \in Built |-> 0]
  /\ added = {}

SingletonNext ==
  \/ \E t \in Threads : call(t)
  \/ \E t \in Threads : check_hit(t)
  \/ \E t \in Threads : check_miss(t)
  \/ \E t \in Threads : build(t)
  \/ \E t \in Threads : build_raises(t)
  \/ \E t \in Threads : assign(t)
  \/ \E t \in Threads : faiss_call(t)
  \/ \E t \in Threads : faiss_check_hit(t)
  \/ \E t \in Threads : faiss_check_miss(t)
  \/ \E t \in Threads : faiss_load_texts(t)
  \/ \E t \in Threads : faiss_read_index(t)
  \/ \E t \in Threads : faiss_corpus(t)
  \/ \E t \in Threads : faiss_new_index(t)
  \/ \E t \in Threads : faiss_add(t)
  \/ \E t \in Threads : faiss_write(t)

SingletonSpec == SingletonInit /\ [][SingletonNext]_vars

(***************************************************************************)
(* The workflow.                                                           *)
(***************************************************************************)
Init ==
  /\ state \in {[question |-> q] : q \in Questions}
  /\ pc = "intent"
  /\ returned = state
  /\ execLog = <<>>
  /\ zeroRuns = 0
  /\ genCalls = 0
  /\ clock = NowLocal
  /\ escalation = NoEscalation
  /\ NoThreadsRunning

\* the executor after a handler returned dict s: write back, go to the next
\* node (or to the router of a conditional edge)
Step(s, next) ==
  /\ state' = Commit(s)
  /\ returned' = s
  /\ pc' = next

node_intent ==
  /\ pc = "intent"
  /\ \E raised \in BOOLEAN, h \in llm_parse, ns \in BOOLEAN :
       LET s0 == AppendTrace(state, "intent")
           s1 == IF raised
                 THEN Put(Put(s0, "hints", EmptyDict), "need_stats", FALSE)
                 ELSE Put(Put(s0, "hints", h), "need_stats", ns)
           s2 == Put(Put(s1, "retries", 0), "max_retries", 1)
       IN  Step(s2, "rag")
  /\ UNCHANGED <<execLog, zeroRuns, genCalls, clock, escalation, threads, globals, builds, added>>

node_rag ==
  /\ pc = "rag"
  /\ \E raised \in BOOLEAN, c \in Contexts :
       LET s0 == AppendTrace(state, "rag")
           s1 == Put(s0, "context", IF raised THEN "" ELSE c)
       IN  Step(s1, "normalize_time")
  /\ UNCHANGED <<execLog, zeroRuns, genCalls, clock, escalation, threads, globals, builds, added>>

node_normalize_time ==
  /\ pc = "normalize_time"
  /\ LET s1 == Put(state, "time_window", normalize_time(Get(state, "hints", EmptyDict), clock))
         s2 == Put(s1, "trace", Append(Get(state, "trace", <<>>), "normalize_time"))
     IN  Step(s2, "generate_sparql")
  /\ UNCHANGED <<execLog, zeroRuns, genCalls, clock, escalation, threads, globals, builds, added>>

\* if state.get("sparql"): return state
sparql_present_before_retry(s) == Get(s, "sparql", "") # "" /\ Get(s, "retries", 0) = 0
sparql_never_present(s) == FALSE
sparql_present(s) == Get(s, "sparql", "") # ""

\* generate() stores the question in the hints dict it is given (a new dict
\* when the hints are empty)
node_generate_sparql ==
  /\ pc = "generate_sparql"
  /\ LET s0 == AppendTrace(state, "generate_sparql")
         h == Get(s0, "hints", EmptyDict)
         skip == sparql_present(s0)
         s1 == IF h = EmptyDict THEN s0
               ELSE Put(s0, "hints", Put(h, "question", s0.question))
         q == generate(s0.question, Get(s0, "context", ""), h)
         s2 == Put(Put(s1, "sparql_history",
                        Append(Get(s1, "sparql_history", <<>>), <<"initial", q>>)),
                   "sparql", q)
         s3 == Put(s1, "sparql", "")
     IN  /\ Step(IF skip THEN s0 ELSE IF generate_raises(h) THEN s3 ELSE s2,
                 "execute_sparql")
         /\ genCalls' = IF skip THEN genCalls ELSE genCalls + 1
  /\ UNCHANGED <<execLog, zeroRuns, clock, escalation, threads, globals, builds, added>>

\* rows = execute(...) or [] inside try/except: [] when execute raises
rows_or_empty(o) == IF o.kind = "raises" THEN <<>> ELSE o.rows

\* bool(rows)
bool_always(rows) == TRUE
bool(rows) == Len(rows) > 0

\* if hints.get("question_type") == "topology":
is_topology_always(hints) == TRUE
is_topology(hints) == Get(hints, "question_type", "None") = "topology"

node_execute_sparql ==
  /\ pc = "execute_sparql"
  /\ \E o \in execute(Get(state, "sparql", "")), o2 \in execute(AllRoomsQuery) :
       LET s0 == AppendTrace(state, "execute_sparql")
           rows == rows_or_empty(o)
           s1 == Put(Put(s0, "rows", rows), "have_rows", bool(rows))
           hints == Get(s1, "hints", EmptyDict)
           s2 == IF is_topology(hints)
                 THEN Put(s1, "topology_all_rooms", rows_or_empty(o2))
                 ELSE s1
       IN  /\ Step(s2, "route_after_execute")
           /\ execLog' = Append(execLog, [sparql |-> Get(state, "sparql", ""),
                                          n |-> Len(rows), raised |-> o.kind = "raises"])
  /\ UNCHANGED <<zeroRuns, genCalls, clock, escalation, threads, globals, builds, added>>

route_after_execute_time_first(st) ==
  LET hints == Get(st, "hints", EmptyDict)
      qtype == Get(hints, "question_type", "None")
      time_range == Get(hints, "time_range", EmptyDict)
      need == Get(hints, "need", NeedNone)
      need_ok == need.isList /\ Len(need.items) > 0
  IN  IF ~ Get(st, "have_rows", FALSE) THEN "zero"
      ELSE IF ~ IsDict(time_range) THEN "AttributeError"
      ELSE IF Get(time_range, "kind", "None") = "point_in_time"
           THEN "analyze_point_in_time"
      ELSE IF qtype = "topology" THEN "answer"
      ELSE IF Get(st, "need_stats", FALSE) \/ need_ok THEN "analyze"
      ELSE "answer"

\* route_after_execute returns a branch name; "AttributeError" stands for the
\* exception of time_range.get when hints["time_range"] is None
route_after_execute(st) ==
  LET hints == Get(st, "hints", EmptyDict)
      qtype == Get(hints, "question_type", "None")
      time_range == Get(hints, "time_range", EmptyDict)
      need == Get(hints, "need", NeedNone)
      need_ok == need.isList /\ Len(need.items) > 0
  IN  IF ~ Get(st, "have_rows", FALSE) THEN "zero"
      ELSE IF qtype = "topology" THEN "answer"
      ELSE IF ~ IsDict(time_range) THEN "AttributeError"
      ELSE IF Get(time_range, "kind", "None") = "point_in_time"
           THEN "analyze_point_in_time"
      ELSE IF Get(st, "need_stats", FALSE) \/ need_ok THEN "analyze"
      ELSE "answer"

RouterMaxRetries == 2

route_retry_or_end_inclusive(st) ==
  IF Get(st, "retries", 0) <= RouterMaxRetries THEN "retry" ELSE "giveup"
route_retry_or_end_by_field(st) ==
  IF Get(st, "retries", 0) < Get(st, "max_retries", 0) THEN "retry" ELSE "giveup"
route_retry_or_end(st) ==
  IF Get(st, "retries", 0) < RouterMaxRetries THEN "retry" ELSE "giveup"

\* workflow.add_conditional_edges("execute_sparql", route_after_execute, ...):
\* an exception of the router ends the run with that exception
edges_execute_sparql ==
  /\ pc = "route_after_execute"
  /\ LET r == route_after_execute(state)
     IN  pc' = CASE r = "zero" -> "route_zero_rows"
                 [] r = "analyze" -> "analyze"
                 [] r = "analyze_point_in_time" -> "analyze_point_in_time"
                 [] r = "answer" -> "answer"
                 [] OTHER -> "raised"
  /\ UNCHANGED <<state, returned, execLog, zeroRuns, genCalls, clock, escalation, threads, globals, builds, added>>

\* state["retries"] = current_retries + 1, before the try block
count_retry_keep(s0) == Put(s0, "retries", Get(s0, "retries", 0))
count_retry(s0) == Put(s0, "retries", Get(s0, "retries", 0) + 1)

\* chunks = search(...); new_context = build_context(chunks);
\* state["context"] = new_context -- not reached when one of the calls raises
refresh_clearing_window(s1, searchRaised, ctx) ==
  IF searchRaised THEN s1 ELSE Put(Put(s1, "context", ctx), "time_window", NoWindow)
refresh(s1, searchRaised, ctx) ==
  IF searchRaised THEN s1 ELSE Put(s1, "context", ctx)

\* the body of the outer try of node_route_zero_rows: the dict it leaves and
\* whether an exception reached the outer handler
Escalate_tags_swapped(s1, retry_count, g1, searchRaised, ctx, g2) ==
  LET level1 == llm_based_sparql_generation(g1)
      first == Put(Put(s1, "sparql", level1), "fallback_strategy", "level_1")
      refreshed == IF retry_count = 2 THEN refresh(s1, searchRaised, ctx) ELSE s1
      second == Put(Put(refreshed, "sparql", advanced_text_to_sparql(g2)),
                    "fallback_strategy", "level_1_fallback")
      fallback == Put(Put(refreshed, "sparql", level1), "fallback_strategy", "level_2")
      body == CASE retry_count = 1 ->
                     IF g1.kind = "escapes" THEN [raised |-> TRUE, s |-> s1]
                     ELSE [raised |-> FALSE, s |-> first]
                [] retry_count = 2 /\ ~ searchRaised /\ g2.kind # "escapes" ->
                     [raised |-> FALSE, s |-> second]
                [] retry_count = 2 /\ (searchRaised \/ g2.kind = "escapes") ->
                     IF g1.kind = "escapes" THEN [raised |-> TRUE, s |-> refreshed]
                     ELSE [raised |-> FALSE, s |-> fallback]
                [] OTHER -> [raised |-> FALSE, s |-> s1]
  IN  IF body.raised THEN body
      ELSE IF ~ Has(body.s, "fallback_strategy") THEN [raised |-> TRUE, s |-> body.s]
      ELSE [raised |-> FALSE,
            s |-> Put(body.s, "sparql_history",
                      Append(Get(body.s, "sparql_history", <<>>),
                             <<body.s.fallback_strategy, body.s.sparql>>))]
Escalate(s1, retry_count, g1, searchRaised, ctx, g2) ==
  LET level1 == llm_based_sparql_generation(g1)
      first == Put(Put(s1, "sparql", level1), "fallback_strategy", "level_1")
      refreshed == IF retry_count = 2 THEN refresh(s1, searchRaised, ctx) ELSE s1
      second == Put(Put(refreshed, "sparql", advanced_text_to_sparql(g2)),
                    "fallback_strategy", "level_2")
      fallback == Put(Put(refreshed, "sparql", level1), "fallback_strategy", "level_1_fallback")
      body == CASE retry_count = 1 ->
                     IF g1.kind = "escapes" THEN [raised |-> TRUE, s |-> s1]
                     ELSE [raised |-> FALSE, s |-> first]
                [] retry_count = 2 /\ ~ searchRaised /\ g2.kind # "escapes" ->
                     [raised |-> FALSE, s |-> second]
                [] retry_count = 2 /\ (searchRaised \/ g2.kind = "escapes") ->
                     IF g1.kind = "escapes" THEN [raised |-> TRUE, s |-> refreshed]
                     ELSE [raised |-> FALSE, s |-> fallback]
                [] OTHER -> [raised |-> FALSE, s |-> s1]
  IN  IF body.raised THEN body
      ELSE IF ~ Has(body.s, "fallback_strategy") THEN [raised |-> TRUE, s |-> body.s]
      ELSE [raised |-> FALSE,
            s |-> Put(body.s, "sparql_history",
                      Append(Get(body.s, "sparql_history", <<>>),
                             <<body.s.fallback_strategy, body.s.sparql>>))]

node_route_zero_rows ==
  /\ pc = "route_zero_rows"
  /\ \E g1 \in Level1Outcomes, searchRaised \in BOOLEAN, ctx \in Contexts,
        g2 \in Level1Outcomes :
       LET s0 == AppendTrace(state, "route_zero_rows")
           s1 == count_retry(s0)
           e == Escalate(s1, s1.retries, g1, searchRaised, ctx, g2)
           s2 == IF e.raised
                 THEN Put(Put(e.s, "sparql", PlaceholderQuery),
                          "fallback_strategy", "error")
                 ELSE e.s
           second == s1.retries = 2
           advanced == second /\ ~ searchRaised
           level1 == ~ second \/ searchRaised \/ g2.kind = "escapes"
       IN  /\ Step(s2, "route_retry_or_end")
           /\ escalation' =
                [searchRaised |-> second /\ searchRaised,
                 ctx |-> IF advanced THEN ctx ELSE "n/a",
                 advancedRaised |-> advanced /\ g2.kind = "escapes",
                 level1Raised |-> level1 /\ g1.kind = "escapes",
                 prompt |-> IF level1
                            THEN level1_prompt(Get(s1, "question", ""),
                                               Get(refresh(s1, searchRaised \/ ~ second, ctx),
                                                   "context", ""),
                                               Get(s1, "hints", EmptyDict))
                            ELSE EmptyDict]
  /\ zeroRuns' = zeroRuns + 1
  /\ UNCHANGED <<execLog, genCalls, clock, threads, globals, builds, added>>

\* workflow.add_conditional_edges("route_zero_rows", route_retry_or_end, ...)
edges_route_zero_rows_to_execute ==
  /\ pc = "route_retry_or_end"
  /\ pc' = IF route_retry_or_end(state) = "retry" THEN "execute_sparql" ELSE "answer"
  /\ UNCHANGED <<state, returned, execLog, zeroRuns, genCalls, clock, escalation, threads, globals, builds, added>>
edges_route_zero_rows ==
  /\ pc = "route_retry_or_end"
  /\ pc' = IF route_retry_or_end(state) = "retry" THEN "generate_sparql" ELSE "answer"
  /\ UNCHANGED <<state, returned, execLog, zeroRuns, genCalls, clock, escalation, threads, globals, builds, added>>

\* per-series records of the statistics engine
AnalysisLists == {<<>>, <<[tsid |-> "ts", n |-> 1]>>}

\* the try/except around the statistics call, shared by both handlers
AnalysisResultKeep(s0, raised, a) ==
  IF raised
  THEN Put(Put(s0, "analysis", a), "analysis_error", "Exception: msg")
  ELSE Put(Put(s0, "analysis", a), "analysis_error", "None")
AnalysisResult(s0, raised, a) ==
  IF raised
  THEN Put(Put(s0, "analysis", <<>>), "analysis_error", "Exception: msg")
  ELSE Put(Put(s0, "analysis", a), "analysis_error", "None")

node_analyze_point_in_time ==
  /\ pc = "analyze_point_in_time"
  /\ \E raised \in BOOLEAN, a \in AnalysisLists :
       Step(AnalysisResult(AppendTrace(state, "analyze_point_in_time"), raised, a),
            "answer")
  /\ UNCHANGED <<execLog, zeroRuns, genCalls, clock, escalation, threads, globals, builds, added>>

node_analyze ==
  /\ pc = "analyze"
  /\ \E raised \in BOOLEAN, a \in AnalysisLists :
       Step(AnalysisResult(AppendTrace(state, "analyze"), raised, a), "answer")
  /\ UNCHANGED <<execLog, zeroRuns, genCalls, clock, escalation, threads, globals, builds, added>>

\* answer_agent.compose: a text made from the arguments it is called with
compose(q, rows, analysis, hints, time_window, topology_all_rooms) ==
  [kind |-> "composed", rows |-> Len(rows), analysis |-> Len(analysis)]
Apology == [kind |-> "apology", rows |-> 0, analysis |-> 0]

node_answer ==
  /\ pc = "answer"
  /\ \E raised \in BOOLEAN :
       LET s0 == AppendTrace(state, "answer")
           text == compose(s0.question, Get(s0, "rows", <<>>), Get(s0, "analysis", <<>>),
                           Get(s0, "hints", EmptyDict), Get(s0, "time_window", EmptyDict),
                           Get(s0, "topology_all_rooms", <<>>))
       IN  Step(Put(s0, "answer", IF raised THEN Apology ELSE text), "END")
  /\ UNCHANGED <<execLog, zeroRuns, genCalls, clock, escalation, threads, globals, builds, added>>

Next ==
  \/ node_intent
  \/ node_rag
  \/ node_normalize_time
  \/ node_generate_sparql
  \/ node_execute_sparql
  \/ edges_execute_sparql
  \/ node_route_zero_rows
  \/ edges_route_zero_rows
  \/ node_analyze
  \/ node_analyze_point_in_time
  \/ node_answer

Spec == Init /\ [][Next]_vars

\* the run is scheduled until it ends: the executor always runs the next node
FairSpec == Spec /\ WF_vars(Next)

(***************************************************************************)
(* normalize_time on its own: the handler started on every time_range that *)
(* llm_parse can hand over, at several clock readings.                     *)
(***************************************************************************)
MaxDays == 3
MaxHours == 3

\* clock readings: local midnight, mid-morning, the last minute of a day
Clocks == {20 * MinutesPerDay, NowLocal, 21 * MinutesPerDay - 1}

TimeStrings == {"2024-05-01", "2024-05-02", "2024-05-01T09:00", "tomorrow", ""}

\* time_range values kept by llm_parse (a dict with the key "kind"); the
\* values under the other keys are whatever JSON the understander produced
WideTimeRanges ==
       {[kind |-> "relative_days", days_ago |-> JInt(d)] : d \in (0 - 1)..MaxDays}
  \cup {[kind |-> "relative_days", days_ago |-> x] : x \in {JStr("2"), JStr("soon"), JNull}}
  \cup {[kind |-> "relative_days"]}
  \cup {[kind |-> "last_hours", hours |-> JInt(h)] : h \in (0 - 1)..MaxHours}
  \cup {[kind |-> "last_hours", hours |-> x] : x \in {JStr("2"), JStr("soon"), JNull}}
  \cup {[kind |-> "last_hours"]}
  \cup {[kind |-> "absolute", start |-> a, end |-> b] : a, b \in TimeStrings}
  \cup {[kind |-> "absolute", start |-> "2024-05-01"], [kind |-> "absolute"]}
  \cup {[kind |-> "point_in_time", at |-> a] : a \in TimeStrings}
  \cup {[kind |-> "point_in_time"]}
  \cup {[kind |-> "someday"], [kind |-> "None"]}

WideHints ==
       {LLMRecord("timeseries", "None", NeedNone, "None", tr) : tr \in WideTimeRanges}
  \cup {_neutral("no-llm")}

\* the state handed to normalize_time: node_intent and node_rag have run
TimeInit ==
  /\ \E h \in WideHints :
       state = [question |-> "q1", hints |-> h, need_stats |-> h.need_stats,
                retries |-> 0, max_retries |-> 1, context |-> "",
                trace |-> <<"intent", "rag">>]
  /\ pc = "normalize_time"
  /\ returned = EmptyDict
  /\ execLog = <<>>
  /\ zeroRuns = 0
  /\ genCalls = 0
  /\ clock \in Clocks
  /\ escalation = NoEscalation
  /\ NoThreadsRunning

TimeNext == node_normalize_time

TimeSpec == TimeInit /\ [][TimeNext]_vars

(***************************************************************************)
(* Properties.                                                             *)
(***************************************************************************)
trace == Get(state, "trace", <<>>)
HandlerNames ==
  {"intent", "rag", "normalize_time", "generate_sparql", "execute_sparql",
   "route_zero_rows", "analyze", "analyze_point_in_time", "answer"}
AllExecutionsEmpty ==
  /\ execLog # <<>>
  /\ \A i \in DOMAIN execLog : execLog[i].n = 0
FirstExecutionEmpty == execLog # <<>> /\ execLog[1].n = 0
IsPrefix(a, b) == Len(a) <= Len(b) /\ \A i \in 1..Len(a) : a[i] = b[i]
History(d) == Get(d, "sparql_history", <<>>)
Tags(h) == [i \in 1..Len(h) |-> h[i][1]]
Branches == {"zero", "answer", "analyze", "analyze_point_in_time"}
SameExceptTrace(a, b) ==
  /\ (DOMAIN a) \ {"trace"} = (DOMAIN b) \ {"trace"}
  /\ \A k \in (DOMAIN a) \ {"trace"} : a[k] = b[k]

\* C1: every run executes the answer step and then ends, and no exception of
\* a step handler or router reaches the caller of the workflow.
C1_NoExceptionEscapes == pc # "raised"

\* C2: every executed step appends exactly its own name to trace and nothing
\* else changes trace; when the run ends, the last element of trace is the
\* answer step and the answer step occurs exactly once.
C2_TraceEndsWithAnswer ==
  [][ /\ pc \in HandlerNames => Get(state', "trace", <<>>) = Append(trace, pc)
      /\ pc \notin HandlerNames => Get(state', "trace", <<>>) = trace
      /\ pc' \in {"END", "raised"} =>
           LET t == Get(state', "trace", <<>>)
           IN  /\ t # <<>>
               /\ t[Len(t)] = "answer"
               /\ Cardinality({i \in DOMAIN t : t[i] = "answer"}) = 1 ]_vars

\* C3: execute-query never runs more than 3 times in a run, and when every
\* execution returned empty rows the answer step is reached after exactly 3
\* executions (the initial, the level_1 and the level_2 query).
C3_ThreeExecutionsWhenAllEmpty ==
  /\ Len(execLog) <= 3
  /\ (pc \in {"answer", "END"} /\ AllExecutionsEmpty) => Len(execLog) = 3

\* C4: when every execution returned empty rows, the final state has
\* retries = 2, fallback_strategy level_2 or level_1_fallback, empty rows, empty
\* analysis, and an answer written by the answer step from that state.
C4_FinalStateAfterAllEmpty ==
  (pc = "END" /\ AllExecutionsEmpty) =>
    /\ Get(state, "retries", 0) = 2
    /\ Get(state, "fallback_strategy", "none") \in {"level_2", "level_1_fallback"}
    /\ Get(state, "rows", <<>>) = <<>>
    /\ Get(state, "analysis", <<>>) = <<>>
    /\ Has(state, "answer")
    /\ state.answer \in {Apology, [kind |-> "composed", rows |-> 0, analysis |-> 0]}

\* C5: once the first execution returned zero rows, the sparql_history that
\* the steps leave in the Request State only grows by appending, and at the end
\* of the run its strategy tags are a prefix of
\* [initial, level_1, (level_2 | level_1_fallback)].
C5_HistoryGrowsByAppending ==
  [][ FirstExecutionEmpty =>
        /\ IsPrefix(History(returned), History(returned'))
        /\ pc' = "END" =>
             \E third \in {"level_2", "level_1_fallback"} :
               IsPrefix(Tags(History(returned')), <<"initial", "level_1", third>>) ]_vars

\* C6: when sparql is non-empty as build-query runs, the query generator is
\* not called and no field other than trace changes (sparql and
\* sparql_history included).
C6_BuildQuerySkipsWhenSparqlSet ==
  [][ (pc = "generate_sparql" /\ Get(state, "sparql", "") # "") =>
        /\ genCalls' = genCalls
        /\ SameExceptTrace(state, state')
        /\ SameExceptTrace(state, returned') ]_vars
C6_Witness ==
  /\ pc = "execute_sparql"
  /\ zeroRuns >= 1
  /\ Get(state, "sparql", "") # ""
  /\ trace[Len(trace)] = "generate_sparql"

\* the priority table of the router as the specification gives it
PriorityTable(st) ==
  LET hints == Get(st, "hints", EmptyDict)
      tr == Get(hints, "time_range", NoneVal)
      need == Get(hints, "need", NeedNone)
  IN  IF Get(st, "rows", <<>>) = <<>> THEN "zero"
      ELSE IF Get(hints, "question_type", "None") = "topology" THEN "answer"
      ELSE IF IsDict(tr) /\ Get(tr, "kind", "None") = "point_in_time"
           THEN "analyze_point_in_time"
      ELSE IF Get(st, "need_stats", FALSE) \/ (need.isList /\ Len(need.items) > 0)
           THEN "analyze"
      ELSE "answer"

\* C7: for every state the router is evaluated on, route_after_execute equals
\* the priority table (zero / answer for topology / analyze_point_in_time /
\* analyze / answer).
C7_RouterFollowsTable ==
  pc = "route_after_execute" => route_after_execute(state) = PriorityTable(state)

\* C8: route_after_execute is total: it returns one of the four branches for
\* every state, and with a null or absent time_range, non-empty rows and a
\* non-topology question it returns analyze or answer.
C8_RouterTotal ==
  pc = "route_after_execute" =>
    LET r == route_after_execute(state)
        hints == Get(state, "hints", EmptyDict)
        need == Get(hints, "need", NeedNone)
    IN  /\ r \in Branches
        /\ ( /\ Get(state, "rows", <<>>) # <<>>
             /\ Get(hints, "question_type", "None") # "topology"
             /\ ~ IsDict(Get(hints, "time_range", NoneVal)) )
           => r = IF Get(state, "need_stats", FALSE)
                     \/ (need.isList /\ Len(need.items) > 0)
                  THEN "analyze" ELSE "answer"

\* C9: after an escalation the router retries exactly when retries < 2 and
\* gives up otherwise, whatever the max_retries field holds.
C9_RetryExactlyBelowTwo ==
  [][ pc = "route_retry_or_end" =>
        /\ (pc' = "generate_sparql") <=> (state.retries < 2)
        /\ (pc' = "answer") <=> (state.retries >= 2)
        /\ \A m \in 0..3 :
             route_retry_or_end(Put(state, "max_retries", m)) = route_retry_or_end(state) ]_vars
C9_Witness ==
  /\ pc = "generate_sparql"
  /\ zeroRuns = 1
  /\ state.retries = 1
  /\ state.max_retries = 1

\* C10: after parse-intent retries is in 0..2 and always equals the number of
\* escalate-on-empty steps that have run, failed ones included.
C10_RetriesCountEscalations ==
  pc # "intent" =>
    /\ Has(state, "retries")
    /\ state.retries \in 0..2
    /\ state.retries = zeroRuns
C10_Witness ==
  /\ pc = "END"
  /\ state.retries = 2
  /\ state.sparql = PlaceholderQuery

LastExecuted == execLog[Len(execLog)].sparql
QuestionType == Get(Get(state, "hints", EmptyDict), "question_type", "None")

\* C11: every query that an escalate-on-empty step produces is executed
\* before the answer step: after the step the router goes back to build-query,
\* build-query keeps the query, and execute-query runs it.
C11_EscalationQueryIsExecuted ==
  [][ /\ pc = "route_retry_or_end" => pc' = "generate_sparql"
      /\ (pc = "generate_sparql" /\ zeroRuns >= 1) =>
           (pc' = "execute_sparql" /\ state'.sparql = state.sparql)
      /\ (pc = "execute_sparql" /\ zeroRuns >= 1) =>
           execLog'[Len(execLog')].sparql = state.sparql ]_vars

\* C12: once the second escalate-on-empty step has run, the router gives up
\* and the answer step is the next step: no build-query, execute-query or
\* statistics step runs after it.
C12_GiveUpAfterSecondEscalation ==
  zeroRuns = 2 =>
    /\ pc \in {"route_retry_or_end", "answer", "END"}
    /\ pc = "route_retry_or_end" => route_retry_or_end(state) = "giveup"
    /\ pc \in {"answer", "END"} =>
         LET t == SelectSeq(trace, LAMBDA n : n # "answer")
         IN  t[Len(t)] = "route_zero_rows"
C12_Witness == zeroRuns = 2 /\ pc = "END" /\ trace[Len(trace)] = "answer"

\* C13: for a topology question no statistics step ever runs, and an
\* execute-query with non-empty rows is followed directly by the answer step
\* with topology_all_rooms set.
C13_TopologySkipsStatistics ==
  [][ QuestionType = "topology" =>
        /\ \A i \in DOMAIN trace : trace[i] \notin {"analyze", "analyze_point_in_time"}
        /\ pc \notin {"analyze", "analyze_point_in_time"}
        /\ (pc = "route_after_execute" /\ state.rows # <<>>) =>
             (pc' = "answer" /\ Has(state, "topology_all_rooms")) ]_vars
C13_Witness ==
  /\ QuestionType = "topology"
  /\ pc = "END"
  /\ state.rows # <<>>
  /\ Has(state, "topology_all_rooms")
  /\ Get(state.hints.time_range, "kind", "None") = "point_in_time"


(***************************************************************************)
(* Time normalization (checked under TimeSpec).                            *)
(***************************************************************************)
TimeRange == Get(Get(state, "hints", EmptyDict), "time_range", NoneVal)
Kind == Get(TimeRange, "kind", "None")
Normalized == pc = "generate_sparql" /\ Has(state, "time_window")
StartOfToday == (clock \div MinutesPerDay) * MinutesPerDay

\* C14: without a time_range, or with a time_range whose kind is null, the
\* time_window is {start_local: null, end_local: null, label: no time
\* constraint, ok: true, error: null}; no default window is invented.
C14_NoTimeRangeGivesNoWindow ==
  (Normalized /\ Kind = "None") =>
    state.time_window =
      [start_local |-> NoneVal, end_local |-> NoneVal,
       label |-> [fmt |-> "(no time constraint)"], ok |-> TRUE, error |-> "None"]

C14_Witness ==
  /\ Normalized
  /\ TimeRange = NoneVal
  /\ state.time_window.start_local = NoneVal
  /\ state.time_window.ok

\* C15: for relative_days with an integer days_ago = d the window is ok, starts
\* at local midnight d days before today, is exactly one day long, and its
\* label is "yesterday" exactly when d = 1 and "<d> days ago" otherwise.
C15_RelativeDaysWindow ==
  (Normalized /\ Kind = "relative_days" /\ Has(Get(TimeRange, "days_ago", JNull), "int")) =>
    LET d == TimeRange.days_ago.int
        w == state.time_window
    IN  /\ w.ok /\ w.error = "None"
        /\ w.start_local = Iso(StartOfToday - d * MinutesPerDay)
        /\ w.end_local = Iso(StartOfToday - d * MinutesPerDay + MinutesPerDay)
        /\ w.start_local.iso % MinutesPerDay = 0
        /\ (w.label = [fmt |-> "yesterday"]) <=> (d = 1)
        /\ d # 1 => w.label = [fmt |-> "<d> days ago", d |-> d]
        /\ d = 1 => w.end_local = Iso(StartOfToday)

C15_Witness ==
  /\ Normalized
  /\ TimeRange = [kind |-> "relative_days", days_ago |-> JInt(1)]
  /\ clock = NowLocal
  /\ state.time_window.label = [fmt |-> "yesterday"]
  /\ state.time_window.end_local = Iso(20 * MinutesPerDay)

\* C16: for last_hours with an integer hours = h the window is ok, ends at
\* now and starts max(1, h) hours before now, so it is at least an hour long.
C16_LastHoursWindow ==
  (Normalized /\ Kind = "last_hours" /\ Has(Get(TimeRange, "hours", JNull), "int")) =>
    LET h == TimeRange.hours.int
        n == IF h < 1 THEN 1 ELSE h
        w == state.time_window
    IN  /\ w.ok /\ w.error = "None"
        /\ w.end_local = Iso(clock)
        /\ w.start_local = Iso(clock - n * MinutesPerHour)
        /\ w.end_local.iso - w.start_local.iso >= MinutesPerHour

C16_Witness ==
  /\ Normalized
  /\ TimeRange = [kind |-> "last_hours", hours |-> JInt(0 - 1)]
  /\ state.time_window.start_local = Iso(clock - MinutesPerHour)
  /\ state.time_window.end_local = Iso(clock)

\* C17: for point_in_time with a parseable at = t the window is ok, is
\* [t, t + 1 hour), and the label is the string t itself.
C17_PointInTimeWindow ==
  (Normalized /\ Kind = "point_in_time" /\ Get(TimeRange, "at", "") \in DOMAIN ParseTable) =>
    LET t == TimeRange.at
        w == state.time_window
    IN  /\ w.ok /\ w.error = "None"
        /\ w.start_local = Iso(ParseTable[t])
        /\ w.end_local = Iso(ParseTable[t] + MinutesPerHour)
        /\ w.label = [fmt |-> "<at>", at |-> t]

C17_Witness ==
  /\ Normalized
  /\ TimeRange = [kind |-> "point_in_time", at |-> "2024-05-01T09:00"]
  /\ state.time_window.end_local = Iso(10 * MinutesPerDay + 10 * MinutesPerHour)

\* C18: for every time_range, malformed ones included, normalize_time hands a
\* time_window to generate_sparql; start_local and end_local are both null or
\* both set; ok = false implies null bounds and an error; ok = true implies
\* no error; an absolute range of which only one bound parses has null bounds.
C18_TimeWindowWellFormed ==
  /\ pc \in {"normalize_time", "generate_sparql"}
  /\ pc = "generate_sparql" => Has(state, "time_window")
  /\ Normalized =>
       LET w == state.time_window
           a == Get(TimeRange, "start", "")
           b == Get(TimeRange, "end", "")
       IN  /\ DOMAIN w = {"start_local", "end_local", "label", "ok", "error"}
           /\ (w.start_local = NoneVal) <=> (w.end_local = NoneVal)
           /\ ~w.ok => (w.start_local = NoneVal /\ w.end_local = NoneVal /\ w.error # "None")
           /\ w.ok => w.error = "None"
           /\ (Kind = "absolute" /\ (a \in DOMAIN ParseTable) # (b \in DOMAIN ParseTable)) =>
                (w.start_local = NoneVal /\ w.end_local = NoneVal)

C18_Witness ==
  /\ Normalized
  /\ TimeRange = [kind |-> "absolute", start |-> "2024-05-01", end |-> "tomorrow"]
  /\ ~state.time_window.ok
  /\ state.time_window.start_local = NoneVal

(***************************************************************************)
(* Globals built on first use (checked under SingletonSpec).               *)
(***************************************************************************)
\* C19: each of the lazily built process-wide objects (RDF graph, LLM handle,
\* embedding model, similarity index) is constructed at most once, also when
\* several requests make the first access at the same time.
C19_BuiltAtMostOnce == \A g \in Built : builds[g] <= 1


\* C20: in every state after the intent step hints has a question_type that is
\* one of timeseries, topology, other; when intent parsing failed, hints is
\* the neutral record (question_type other, uncertain true, the rest empty).
C20_HintsHaveQuestionType ==
  (\E i \in DOMAIN trace : trace[i] = "intent") =>
    /\ Has(state, "hints")
    /\ Has(state.hints, "question_type")
    /\ state.hints.question_type \in {"timeseries", "topology", "other"}
    /\ Get(state.hints, "source", "llm") # "llm" =>
         /\ state.hints.question_type = "other"
         /\ state.hints.uncertain
         /\ state.hints.time_range = NoneVal


(***************************************************************************)
(* The query executor and the execute step.                                *)
(***************************************************************************)
LastExecution == execLog[Len(execLog)]

\* C21: after every execute_sparql step rows is a sequence, never null; it is
\* [] when the executor raised; have_rows is true exactly when rows is not
\* empty, and the router gives zero exactly when rows is empty.
C21_RowsNeverNull ==
  /\ pc = "route_after_execute" => (Has(state, "rows") /\ Has(state, "have_rows"))
  /\ Has(state, "rows") =>
       /\ DOMAIN state.rows = 1..Len(state.rows)
       /\ state.have_rows <=> (state.rows # <<>>)
  /\ pc = "route_after_execute" =>
       /\ LastExecution.raised => state.rows = <<>>
       /\ (route_after_execute(state) = "zero") <=> (state.rows = <<>>)

C21_Witness ==
  /\ pc = "route_after_execute"
  /\ LastExecution.raised
  /\ state.rows = <<>>
  /\ ~ state.have_rows
  /\ route_after_execute(state) = "zero"


\* C22: execute(query) never raises: it returns [] when the syntax check
\* rejects the query and [] for any error while loading the graph, running
\* the query or reading its results.
C22_ExecuteNeverRaises == \A i \in DOMAIN execLog : ~ execLog[i].raised


(***************************************************************************)
(* Statistics and answer steps.                                            *)
(***************************************************************************)
AnalysisSteps == {"analyze", "analyze_point_in_time"}

\* C23: an analysis step always goes on to answer; it leaves analysis_error
\* null on success, and analysis = [] with a non-empty analysis_error when the
\* statistics call raised; no other step changes analysis, which is absent or
\* empty unless an analysis step has run.
C23_AnalysisFailureIsRecorded ==
  [][ /\ pc \in AnalysisSteps =>
           /\ pc' = "answer"
           /\ Has(state', "analysis") /\ Has(state', "analysis_error")
           /\ \/ state'.analysis_error = "None"
              \/ (state'.analysis = <<>> /\ state'.analysis_error \notin {"None", ""})
      /\ pc \notin AnalysisSteps =>
           /\ Has(state', "analysis") <=> Has(state, "analysis")
           /\ Get(state', "analysis", <<>>) = Get(state, "analysis", <<>>)
      /\ (\A i \in DOMAIN trace : trace[i] \notin AnalysisSteps /\ pc \notin AnalysisSteps) =>
           Get(state', "analysis", <<>>) = <<>> ]_vars

C23_Witness ==
  /\ pc = "answer"
  /\ Has(state, "analysis")
  /\ state.analysis = <<>>
  /\ state.analysis_error = "Exception: msg"
  /\ trace[Len(trace)] = "analyze_point_in_time"


\* C24: answer is written exactly once per request and only by the answer
\* step (the apology text when compose raised), and a run ends only from the
\* answer step.
C24_AnswerWrittenOnceAtTheEnd ==
  [][ /\ pc # "answer" => (~ Has(state', "answer") /\ pc' \notin {"END", "raised"})
      /\ pc = "answer" =>
           /\ ~ Has(state, "answer")
           /\ Has(state', "answer")
           /\ state'.answer.kind \in {"composed", "apology"}
           /\ pc' = "END" ]_vars


(***************************************************************************)
(* Escalation.                                                             *)
(***************************************************************************)
\* C25: after every route_zero_rows step the state's fallback_strategy names
\* the strategy that produced the current sparql: level_1 when retries became
\* 1, level_2 or level_1_fallback when it became 2, error exactly when sparql
\* is the placeholder query; no other step changes sparql or
\* fallback_strategy in between.
C25_StrategyNamesCurrentQuery ==
  [][ /\ pc' = "route_retry_or_end" =>
           /\ Has(state', "fallback_strategy")
           /\ state'.retries = 1 => state'.fallback_strategy \in {"level_1", "error"}
           /\ state'.retries = 2 =>
                state'.fallback_strategy \in {"level_2", "level_1_fallback", "error"}
           /\ (state'.fallback_strategy = "error") <=> (state'.sparql = PlaceholderQuery)
      /\ (zeroRuns >= 1 /\ pc # "route_zero_rows") =>
           /\ state'.sparql = state.sparql
           /\ Get(state', "fallback_strategy", "None") = Get(state, "fallback_strategy", "None") ]_vars


Level1Queries == {llm_based_sparql_generation(o) : o \in LLMOutcomes}
AdvancedQueries == {advanced_text_to_sparql(o) : o \in LLMOutcomes}

C27_PlaceholderGivesNoRows ==
  \A i \in DOMAIN execLog : execLog[i].sparql = PlaceholderQuery => execLog[i].n = 0


SameField(a, b, k) == (Has(a, k) <=> Has(b, k)) /\ (Has(a, k) => a[k] = b[k])

\* C28: a route_zero_rows step changes only retries, sparql,
\* fallback_strategy, sparql_history and trace; question, hints, time_window,
\* context, rows, analysis and topology_all_rooms stay as they were.
C28_EscalationFrame ==
  [][ pc = "route_zero_rows" =>
        \A k \in {"question", "hints", "time_window", "context", "rows", "analysis",
                  "topology_all_rooms"} :
          SameField(state, state', k) /\ SameField(state, returned', k) ]_vars

\* C28 as the code has it: context is the one more field the step may change,
\* and only in the second escalation, to the context that retrieval gave.
C28_EscalationFrameWithContext ==
  [][ pc = "route_zero_rows" =>
        /\ \A k \in {"question", "hints", "time_window", "rows", "analysis",
                     "topology_all_rooms"} :
             SameField(state, state', k) /\ SameField(state, returned', k)
        /\ DOMAIN returned' \subseteq
             (DOMAIN state) \cup {"retries", "sparql", "fallback_strategy",
                                  "sparql_history", "trace", "context"}
        /\ \/ SameField(state, state', "context")
           \/ (state'.retries = 2 /\ ~ escalation'.searchRaised
                 /\ state'.context = escalation'.ctx) ]_vars

C28_Witness ==
  /\ pc = "route_retry_or_end"
  /\ state.retries = 2
  /\ returned.fallback_strategy = "level_2"
  /\ state.context = "context-2"
  /\ escalation.ctx = "context-2"
  /\ Has(state, "time_window") /\ state.rows = <<>>


\* C29: hints is written only by the intent step: no later step adds, removes
\* or changes an entry of the hints record in the Request State.
C29_HintsWrittenOnlyByIntent ==
  [][ pc # "intent" => SameField(state, state', "hints") ]_vars

\* C30: the level_1 query does not depend on the retrieved context: a run that
\* differs only in context gives the level_1 generator the same prompt, and
\* the query is made from the LLM's reaction to that prompt alone.
C30_Level1IgnoresContext ==
  [][ (pc = "route_zero_rows" /\ state.retries = 0) =>
        /\ \A c \in Contexts :
             escalation'.prompt =
               level1_prompt(state.question, c, Get(state, "hints", EmptyDict))
        /\ state'.sparql \in Level1Queries \cup {PlaceholderQuery}
        /\ (state'.sparql = PlaceholderQuery) <=> escalation'.level1Raised ]_vars

C30_Witness ==
  /\ pc = "route_retry_or_end"
  /\ state.retries = 1
  /\ state.context = "context-1"
  /\ escalation.prompt # EmptyDict
  /\ escalation.prompt.question = state.question
  /\ state.sparql = "PREFIX brick: SELECT ?room"

\* the query texts the methods of SPARQLTemplates produce
SPARQLTemplates ==
  {"tpl:count_rooms", "tpl:sensor_existence", "tpl:list_rooms", "tpl:room_points_tsid",
   "tpl:list_points_any(20)", "tpl:list_points_any(50)"}

\* C31: the query an escalation step tags level_1 or level_1_fallback is never
\* a query of the templates, also when the LLM is unavailable or fails.
C31_Level1BypassesTemplates ==
  [][ (pc = "route_zero_rows"
         /\ Get(returned', "fallback_strategy", "None") \in {"level_1", "level_1_fallback"}) =>
        state'.sparql \notin SPARQLTemplates ]_vars

\* C32: after an execute_sparql step topology_all_rooms is present exactly
\* when hints.question_type is topology; for a topology question every
\* execution, re-executions included, stores what the list-all-rooms query
\* gave, [] when it failed, and rows / have_rows are those of the first query
\* whatever the second one did.
C32_TopologyRoomsIffTopology ==
  /\ Len(execLog) >= 1 =>
       (Has(state, "topology_all_rooms") <=> QuestionType = "topology")
  /\ Len(execLog) = 0 => ~ Has(state, "topology_all_rooms")
  /\ pc = "route_after_execute" =>
       /\ QuestionType = "topology" =>
            /\ state.topology_all_rooms \in
                 {rows_or_empty(o2) : o2 \in execute(AllRoomsQuery)}
            /\ \A o2 \in execute(AllRoomsQuery) :
                 (o2.kind = "raises" \/ o2.cause # "ok") => rows_or_empty(o2) = <<>>
       /\ Len(state.rows) = LastExecution.n
       /\ state.have_rows <=> LastExecution.n > 0

C32_Witness ==
  /\ pc = "route_after_execute"
  /\ QuestionType = "topology"
  /\ Len(execLog) = 2
  /\ state.topology_all_rooms = <<>>
  /\ state.rows # <<>>
  /\ state.have_rows

(***************************************************************************)
(* analysis_agent: the statistics engine over data/timeseries.csv.         *)
(* Timestamps are minutes; a float is kept as the exact fraction or        *)
(* integer it stands for.                                                  *)
(***************************************************************************)
MaxSeries == 2
MaxNeed == 2

\* DEFAULT_TZ = "Asia/Shanghai": local time is UTC + 8 hours all year
UtcOffsetHours == 8

\* timedelta(hours=0.05) in minutes
FallbackWindowMinutes == 3

\* the rows of timeseries.csv: naive local timestamps, numeric values
TimeseriesCsv ==
  LET t0 == 10 * MinutesPerDay + 9 * MinutesPerHour
  IN  << [tsid |-> "room1.temp", timestamp |-> t0, value |-> 21],
         [tsid |-> "room1.temp", timestamp |-> t0 + 10, value |-> 22],
         [tsid |-> "room1.temp", timestamp |-> t0 + 20, value |-> 25],
         [tsid |-> "room2.rh", timestamp |-> t0 + 2, value |-> 40],
         [tsid |-> "room2.rh", timestamp |-> t0 + 50, value |-> 45],
         [tsid |-> "room3.lux", timestamp |-> t0 + 10, value |-> 300] >>

\* _load_df: the rows with the timestamp localized and converted to UTC
_load_df ==
  [i \in DOMAIN TimeseriesCsv |->
     [TimeseriesCsv[i] EXCEPT
        !.timestamp = TimeseriesCsv[i].timestamp - UtcOffsetHours * MinutesPerHour]]

\* pd.to_datetime(iso): the zone-aware local time an ISO text stands for
pd_to_datetime(x) == [local |-> x.iso, tz |-> x.tz]

\* _to_utc of a zone-aware time: tz_convert("UTC")
_to_utc(dt) == dt.local - UtcOffsetHours * MinutesPerHour

_metric_from_tsid(tsid) ==
  CASE tsid \in {"room1.temp"} -> "temperature"
    [] tsid \in {"room2.rh"} -> "humidity"
    [] tsid \in {"room3.lux"} -> "illuminance"
    [] tsid \in {"ghost.co2"} -> "co2"
    [] OTHER -> "value"

RECURSIVE SumSeq(_)
SumSeq(vals) == IF vals = <<>> THEN 0 ELSE Head(vals) + SumSeq(Tail(vals))

RECURSIVE MaxSeq(_)
MaxSeq(vals) ==
  IF Len(vals) = 1 THEN Head(vals)
  ELSE IF Head(vals) >= MaxSeq(Tail(vals)) THEN Head(vals) ELSE MaxSeq(Tail(vals))

RECURSIVE MinSeq(_)
MinSeq(vals) ==
  IF Len(vals) = 1 THEN Head(vals)
  ELSE IF Head(vals) <= MinSeq(Tail(vals)) THEN Head(vals) ELSE MinSeq(Tail(vals))

\* a float result: a whole number, or the mean as sum / n
Num(v) == [num |-> v]
Mean(vals) == [sum |-> SumSeq(vals), n |-> Len(vals)]

\* _trend: the sign of the least-squares slope over x = 0..n-1 against 0.02,
\* None for fewer than three values
_trend(vals) ==
  LET n == Len(vals)
      sx == SumSeq([i \in 1..n |-> i - 1])
      sxx == SumSeq([i \in 1..n |-> (i - 1) * (i - 1)])
      sv == SumSeq(vals)
      sxv == SumSeq([i \in 1..n |-> (i - 1) * vals[i]])
      num == n * sxv - sx * sv
      den == n * sxx - sx * sx
  IN  IF n < 3 THEN NoneVal
      ELSE IF 50 * num > den THEN [trend |-> "rising"]
      ELSE IF 50 * num < 0 - den THEN [trend |-> "falling"]
      ELSE [trend |-> "stable"]

_stat_avg(vals) == IF vals = <<>> THEN NoneVal ELSE Mean(vals)
_stat_max(vals) == IF vals = <<>> THEN NoneVal ELSE Num(MaxSeq(vals))
_stat_min(vals) == IF vals = <<>> THEN NoneVal ELSE Num(MinSeq(vals))
_stat_trend(vals) == IF vals = <<>> THEN NoneVal ELSE _trend(vals)

_METRIC_REGISTRY == {"avg", "max", "min", "trend"}

\* _METRIC_REGISTRY[w](vals)
metric_value(w, vals) ==
  CASE w = "avg" -> _stat_avg(vals)
    [] w = "max" -> _stat_max(vals)
    [] w = "min" -> _stat_min(vals)
    [] w = "trend" -> _stat_trend(vals)

\* the metric names a caller may ask for, and str(x).strip().lower() of each
NeedNames == {"avg", "trend", " MAX ", "median"}
strip_lower(x) == IF x = " MAX " THEN "max" ELSE x

Range(f) == {f[i] : i \in DOMAIN f}

\* want = [w for w in want_raw if w in _METRIC_REGISTRY]
want(need) ==
  LET want_raw == [i \in DOMAIN need |-> strip_lower(need[i])]
  IN  SelectSeq(want_raw, LAMBDA w : w \in _METRIC_REGISTRY)

\* the values of one series inside [start_utc, end_utc), in file order
window_values(df, tsid, start_utc, end_utc) ==
  LET sub == SelectSeq(df, LAMBDA r : /\ r.tsid = tsid
                                      /\ r.timestamp >= start_utc
                                      /\ r.timestamp < end_utc)
  IN  [i \in DOMAIN sub |-> sub[i].value]

\* item[w] = ... for each w in want, on top of the fixed fields
with_metrics(item, metrics) ==
  [k \in (DOMAIN item) \cup (DOMAIN metrics) |->
     IF k \in DOMAIN metrics THEN metrics[k] ELSE item[k]]

\* analyze(tsids, start, end, need, label); raises holds the pairs <<i, w>>
\* for which computing metric w of the i-th series raises
analyze_drop_on_error(tsids, start, end, need, label, raises) ==
  LET df == _load_df
      names == want(need)
      known == {df[i].tsid : i \in DOMAIN df}
      base(tsid, n, reason) ==
        [tsid |-> tsid, span |-> label, metric |-> _metric_from_tsid(tsid), n |-> n,
         _diag |-> [reason |-> reason]]
      item(i) ==
        LET tsid == tsids[i]
            vals == window_values(df, tsid, _to_utc(start), _to_utc(end))
            failed == {w \in Range(names) : <<i, w>> \in raises}
            val(w) == IF w \in failed THEN NoneVal ELSE metric_value(w, vals)
            filled == with_metrics(base(tsid, Len(vals), "None"), [w \in Range(names) |-> val(w)])
        IN  IF tsid \notin known
            THEN with_metrics(base(tsid, 0, "tsid_not_found_in_csv"), [w \in Range(names) |-> NoneVal])
            ELSE IF failed = {} THEN filled
            ELSE base(tsid, Len(vals), "None")
  IN  IF start = NoneVal \/ end = NoneVal
      THEN [i \in DOMAIN tsids |->
              with_metrics(base(tsids[i], 0, "no_time_window"), [w \in Range(names) |-> NoneVal])]
      ELSE [i \in DOMAIN tsids |-> item(i)]
analyze(tsids, start, end, need, label, raises) ==
  LET df == _load_df
      names == want(need)
      known == {df[i].tsid : i \in DOMAIN df}
      base(tsid, n, reason) ==
        [tsid |-> tsid, span |-> label, metric |-> _metric_from_tsid(tsid), n |-> n,
         _diag |-> [reason |-> reason]]
      item(i) ==
        LET tsid == tsids[i]
            vals == window_values(df, tsid, _to_utc(start), _to_utc(end))
            failed == {w \in Range(names) : <<i, w>> \in raises}
            val(w) == IF w \in failed THEN NoneVal ELSE metric_value(w, vals)
            filled == with_metrics(base(tsid, Len(vals), "None"), [w \in Range(names) |-> val(w)])
        IN  IF tsid \notin known
            THEN with_metrics(base(tsid, 0, "tsid_not_found_in_csv"), [w \in Range(names) |-> NoneVal])
            ELSE IF failed = {} THEN filled
            ELSE Put(filled, "_diag_errors", [w \in failed |-> "Exception: msg"])
  IN  IF start = NoneVal \/ end = NoneVal
      THEN [i \in DOMAIN tsids |->
              with_metrics(base(tsids[i], 0, "no_time_window"), [w \in Range(names) |-> NoneVal])]
      ELSE [i \in DOMAIN tsids |-> item(i)]

\* tsids = [r.get("tsid") for r in rows if isinstance(r, dict) and r.get("tsid")]
tsids_of(rows) ==
  LET with_tsid == SelectSeq(rows, LAMBDA r : Has(r, "tsid"))
  IN  [i \in DOMAIN with_tsid |-> with_tsid[i].tsid]

\* pd.to_datetime(tw.get(key)) if the value is truthy, else None
window_bound(tw, key) ==
  IF Has(tw, key) /\ tw[key] # NoneVal THEN pd_to_datetime(tw[key]) ELSE NoneVal

DefaultNeed == <<"avg", "max", "min", "trend">>

analyze_state(st, raises) ==
  LET tw == Get(st, "time_window", EmptyDict)
      hints == Get(st, "hints", EmptyDict)
      nd == Get(hints, "need", NeedNone)
      need == IF nd.isList /\ nd.items # <<>> THEN nd.items ELSE DefaultNeed
  IN  analyze(tsids_of(Get(st, "rows", <<>>)), window_bound(tw, "start_local"),
              window_bound(tw, "end_local"), need, Get(tw, "label", ""), raises)

\* analyze_point_in_time_state: the reading at the target minute, else the
\* readings of the FallbackWindowMinutes after it
analyze_point_in_time_state(st) ==
  LET tsids == tsids_of(Get(st, "rows", <<>>))
      tw == Get(st, "time_window", EmptyDict)
      target == window_bound(tw, "start_local")
      df == _load_df
      known == {df[i].tsid : i \in DOMAIN df}
      item(tsid) ==
        LET target_utc == _to_utc(target)
            exact_match == SelectSeq(df, LAMBDA r : r.tsid = tsid /\ r.timestamp = target_utc)
            vals == window_values(df, tsid, target_utc, target_utc + FallbackWindowMinutes)
        IN  IF tsid \notin known
            THEN [tsid |-> tsid, metric |-> _metric_from_tsid(tsid), value |-> NoneVal,
                  n |-> 0, _diag |-> [reason |-> "tsid_not_found"]]
            ELSE IF exact_match # <<>>
            THEN [tsid |-> tsid, metric |-> _metric_from_tsid(tsid),
                  value |-> Num(exact_match[1].value), avg |-> Num(exact_match[1].value),
                  max |-> Num(exact_match[1].value), min |-> Num(exact_match[1].value),
                  n |-> 1, _diag |-> [reason |-> "exact_match"]]
            ELSE IF vals # <<>>
            THEN [tsid |-> tsid, metric |-> _metric_from_tsid(tsid),
                  value |-> Num(vals[1]), avg |-> Mean(vals), max |-> Num(MaxSeq(vals)),
                  min |-> Num(MinSeq(vals)), n |-> Len(vals),
                  _diag |-> [reason |-> "window_match"]]
            ELSE [tsid |-> tsid, metric |-> _metric_from_tsid(tsid), value |-> NoneVal,
                  avg |-> NoneVal, max |-> NoneVal, min |-> NoneVal, n |-> 0,
                  _diag |-> [reason |-> "no_data_in_window"]]
  IN  IF target = NoneVal
      THEN [i \in DOMAIN tsids |-> [tsid |-> tsids[i], error |-> "no target time", n |-> 0]]
      ELSE [i \in DOMAIN tsids |-> item(tsids[i])]

\* sequences over S of length at most n
RECURSIVE SeqsUpTo(_, _)
SeqsUpTo(S, n) ==
  IF n = 0 THEN {<<>>}
  ELSE SeqsUpTo(S, n - 1) \cup {Append(s, x) : s \in SeqsUpTo(S, n - 1), x \in S}

\* result rows of the executor: a series id each, or a row without one
SeriesRows ==
  {[tsid |-> t] : t \in {"room1.temp", "room2.rh", "room3.lux", "ghost.co2"}}
    \cup {[room |-> "room1"]}

AnalysisNeeds == {NeedNone} \cup {NeedList(xs) : xs \in SeqsUpTo(NeedNames, MaxNeed)}

\* time ranges of the hints: none, unparseable, an hour, a day, a reversed
\* range
AnalysisTimeRanges ==
  {NoneVal,
   [kind |-> "point_in_time", at |-> "tomorrow"],
   [kind |-> "point_in_time", at |-> "2024-05-01T09:00"],
   [kind |-> "point_in_time", at |-> "2024-05-01"],
   [kind |-> "absolute", start |-> "2024-05-01", end |-> "2024-05-02"],
   [kind |-> "absolute", start |-> "2024-05-02", end |-> "2024-05-01"]}

\* the state handed to the statistics call: the steps up to execute_sparql
\* have run and left the time window and the rows
AnalysisInit ==
  /\ \E rows \in SeqsUpTo(SeriesRows, MaxSeries), nd \in AnalysisNeeds,
        tr \in AnalysisTimeRanges :
       LET hints == LLMRecord("timeseries", "None", nd, "None", tr)
       IN  state = [question |-> "q1", hints |-> hints, rows |-> rows,
                    have_rows |-> rows # <<>>,
                    time_window |-> normalize_time(hints, NowLocal)]
  /\ pc \in {"analyze_state", "analyze_point_in_time_state"}
  /\ returned = EmptyDict
  /\ execLog = <<>>
  /\ zeroRuns = 0
  /\ genCalls = 0
  /\ clock = NowLocal
  /\ escalation = NoEscalation
  /\ NoThreadsRunning

\* analysis_agent.analyze_state(state); at most one metric computation raises
call_analyze_state ==
  /\ pc = "analyze_state"
  /\ \E raises \in {{}} \cup {{<<i, w>>} : i \in 1..MaxSeries, w \in _METRIC_REGISTRY} :
       returned' = [analysis |-> analyze_state(state, raises), raises |-> raises]
  /\ pc' = "returned"
  /\ UNCHANGED <<state, execLog, zeroRuns, genCalls, clock, escalation, threads, globals, builds, added>>

\* analysis_agent.analyze_point_in_time_state(state)
call_analyze_point_in_time_state ==
  /\ pc = "analyze_point_in_time_state"
  /\ returned' = [analysis |-> analyze_point_in_time_state(state)]
  /\ pc' = "returned"
  /\ UNCHANGED <<state, execLog, zeroRuns, genCalls, clock, escalation, threads, globals, builds, added>>

AnalysisNext ==
  \/ call_analyze_state
  \/ call_analyze_point_in_time_state

AnalysisSpec == AnalysisInit /\ [][AnalysisNext]_vars

(***************************************************************************)
(* The statistics engine (checked under AnalysisSpec).                     *)
(***************************************************************************)
RequestedSeries == tsids_of(state.rows)
RequestedNeed ==
  IF state.hints.need.isList /\ state.hints.need.items # <<>>
  THEN state.hints.need.items ELSE DefaultNeed
RequestedSupported ==
  {strip_lower(RequestedNeed[j]) : j \in DOMAIN RequestedNeed} \cap {"avg", "max", "min", "trend"}
RecordFields == {"tsid", "span", "metric", "n", "_diag", "_diag_errors"}

\* C33: analyze returns one record per requested series id, in input order,
\* with or without a time window and for known and unknown ids; a record
\* holds exactly the requested metric names that are supported; a metric
\* whose computation raises is null with a diagnostic, while the other
\* metrics of that series and the records of the other series are what they
\* are without the exception.
C33_AnalyzeOneRecordPerSeries ==
  (pc = "returned" /\ Has(returned, "raises")) =>
    LET a == returned.analysis
        clean == analyze_state(state, {})
    IN  /\ Len(a) = Len(RequestedSeries)
        /\ \A i \in DOMAIN a :
             /\ a[i].tsid = RequestedSeries[i]
             /\ DOMAIN a[i] \subseteq RecordFields \cup RequestedSupported
             /\ RequestedSupported \subseteq DOMAIN a[i]
             /\ \A w \in RequestedSupported :
                  IF <<i, w>> \in returned.raises /\ a[i]._diag.reason = "None"
                  THEN /\ a[i][w] = NoneVal
                       /\ Has(a[i], "_diag_errors")
                       /\ w \in DOMAIN a[i]._diag_errors
                  ELSE a[i][w] = clean[i][w]

C33_Witness ==
  /\ pc = "returned"
  /\ Has(returned, "raises")
  /\ returned.raises = {<<1, "avg">>}
  /\ state.hints.need.items = <<"avg", " MAX ">>
  /\ Len(returned.analysis) = 2
  /\ returned.analysis[1].avg = NoneVal
  /\ returned.analysis[1].max = Num(25)
  /\ Has(returned.analysis[1], "_diag_errors")
  /\ returned.analysis[2]._diag.reason = "tsid_not_found_in_csv"

\* C35: for a point_in_time question analyze_point_in_time_state takes the
\* window [start_local, end_local) = [at, at + 1 hour): a series with a
\* reading inside the window gets a value, and n = 0 is reported only for a
\* series without any reading in the window.
C35_PointInTimeUsesWindow ==
  (/\ pc = "returned"
   /\ ~ Has(returned, "raises")
   /\ Get(state.hints.time_range, "kind", "None") = "point_in_time"
   /\ state.time_window.start_local # NoneVal) =>
    LET a == returned.analysis
        start == state.time_window.start_local.iso
        end == state.time_window.end_local.iso
        inside(tsid) == \E k \in DOMAIN TimeseriesCsv :
                          /\ TimeseriesCsv[k].tsid = tsid
                          /\ TimeseriesCsv[k].timestamp >= start
                          /\ TimeseriesCsv[k].timestamp < end
    IN  /\ end = start + MinutesPerHour
        /\ \A i \in DOMAIN a :
             /\ inside(a[i].tsid) => (a[i].n > 0 /\ a[i].value # NoneVal)
             /\ a[i].n = 0 => ~ inside(a[i].tsid)

(***************************************************************************)
(* The order of the steps.                                                 *)
(***************************************************************************)
FirstSteps == <<"intent", "rag", "normalize_time", "generate_sparql", "execute_sparql">>
StatisticsSteps == {"analyze", "analyze_point_in_time"}

\* the edges of the compiled graph
GraphEdges ==
  {<<"intent", "rag">>, <<"rag", "normalize_time">>, <<"normalize_time", "generate_sparql">>,
   <<"generate_sparql", "execute_sparql">>, <<"execute_sparql", "route_zero_rows">>,
   <<"execute_sparql", "analyze">>, <<"execute_sparql", "analyze_point_in_time">>,
   <<"execute_sparql", "answer">>, <<"route_zero_rows", "generate_sparql">>,
   <<"route_zero_rows", "answer">>, <<"analyze", "answer">>,
   <<"analyze_point_in_time", "answer">>}

\* the number of execute_sparql steps among the first i steps
ExecutionsUpTo(i) == Cardinality({j \in 1..i : trace[j] = "execute_sparql"})

\* C34: the executed steps form a path of the graph: the run starts intent,
\* rag, normalize_time, generate_sparql, execute_sparql; the first three run
\* once, before the first generate_sparql; each execute_sparql comes right
\* after a generate_sparql; route_zero_rows comes only right after an
\* execution without rows; at most one statistics step runs, right after an
\* execution with rows and right before answer.
C34_TraceIsGraphPath ==
  /\ IsPrefix(trace, FirstSteps) \/ IsPrefix(FirstSteps, trace)
  /\ pc = "END" => IsPrefix(FirstSteps, trace)
  /\ \A i \in 1..Len(trace) :
       /\ i > 1 => <<trace[i - 1], trace[i]>> \in GraphEdges
       /\ trace[i] \in {"intent", "rag", "normalize_time"} => trace[i] = FirstSteps[i]
       /\ trace[i] = "execute_sparql" => (i > 1 /\ trace[i - 1] = "generate_sparql")
       /\ trace[i] = "route_zero_rows" =>
            /\ i > 1 /\ trace[i - 1] = "execute_sparql"
            /\ execLog[ExecutionsUpTo(i)].n = 0
       /\ trace[i] \in StatisticsSteps =>
            /\ i > 1 /\ trace[i - 1] = "execute_sparql"
            /\ execLog[ExecutionsUpTo(i)].n > 0
            /\ i < Len(trace) => trace[i + 1] = "answer"
            /\ i = Len(trace) => pc = "answer"
  /\ Cardinality({i \in 1..Len(trace) : trace[i] \in StatisticsSteps}) <= 1

C34_Witness ==
  /\ pc = "END"
  /\ trace = <<"intent", "rag", "normalize_time", "generate_sparql", "execute_sparql",
               "route_zero_rows", "generate_sparql", "execute_sparql",
               "analyze_point_in_time", "answer">>

(***************************************************************************)
(* The query that is generated, executed and shown.                        *)
(***************************************************************************)
InitialEntries(h) == {i \in 1..Len(h) : h[i][1] = "initial"}

\* C36: the default generator is called at most once per request: whenever
\* generate_sparql is entered after an escalation sparql is not empty, the
\* step leaves it as it is, the next execution runs exactly that query, and
\* no history holds more than one entry tagged initial.
C36_GeneratorCalledAtMostOnce ==
  [][ /\ genCalls' <= 1
      /\ (pc = "generate_sparql" /\ zeroRuns >= 1) =>
           /\ Get(state, "sparql", "") # ""
           /\ state'.sparql = state.sparql
           /\ genCalls' = genCalls
      /\ (pc = "execute_sparql" /\ zeroRuns >= 1) =>
           /\ execLog'[Len(execLog')].sparql = state.sparql
           /\ state'.sparql = state.sparql
      /\ Cardinality(InitialEntries(History(returned'))) <= 1
      /\ Cardinality(InitialEntries(History(state'))) <= 1 ]_vars

C36_Witness ==
  /\ pc = "route_after_execute"
  /\ zeroRuns = 1
  /\ genCalls = 1
  /\ Len(execLog) = 2
  /\ execLog[1].sparql # execLog[2].sparql
  /\ execLog[2].sparql = state.sparql
  /\ state.sparql = "PREFIX brick: SELECT ?x WHERE {"

\* C37: when the answer step runs, and in the final state, rows is the result
\* of executing the query held in sparql: the last execute_sparql step ran on
\* the current sparql.
C37_RowsComeFromFinalQuery ==
  (pc \in {"answer", "END"}) =>
    /\ execLog # <<>>
    /\ LastExecution.sparql = Get(state, "sparql", "")
    /\ Len(Get(state, "rows", <<>>)) = LastExecution.n

\* C38: every time_window returned with ok = true and bounds that are not
\* null is a non-empty forward interval: start_local is strictly earlier than
\* end_local, for every kind of time range and every input value.
C38_WindowIsForward ==
  (/\ Normalized
   /\ state.time_window.ok
   /\ state.time_window.start_local # NoneVal
   /\ state.time_window.end_local # NoneVal) =>
    state.time_window.start_local.iso < state.time_window.end_local.iso

\* C39: a process-wide object is visible to other requests only when it is
\* completely built: a request that finds the similarity index already set
\* gets an index that has been populated, together with its text list.
C39_PublishedWhenComplete ==
  [][ \A t \in Threads :
        faiss_check_hit(t) =>
          /\ globals["_FAISS_INDEX"] \in added
          /\ globals["_FAISS_TEXTS"] # 0 ]_vars

\* C40: every key a step handler writes is a key of the State schema, so
\* what a handler returns (sparql_history and fallback_strategy included) is
\* what the next step and the caller find in the state.
C40_WrittenKeysAreDeclared ==
  /\ DOMAIN returned \subseteq SchemaKeys
  /\ \A k \in DOMAIN returned : Has(state, k) /\ state[k] = returned[k]

====
